---- MODULE Spec2Model ----
(***************************************************************************)
(* Conway's Game of Life on a bounded (non-toroidal) grid of bits, as      *)
(* implemented by CellularAutomaton in its two variants:                   *)
(*   "fixed"   : template <Width, Height> over std::bitset   (main.cpp)    *)
(*   "dynamic" : run-time width/height over DynamicBitset    (second file) *)
(* A simulator is a record; ca maps each running program instance to its   *)
(* record.  Bitsets are functions 0..size-1 -> BOOLEAN.                    *)
(***************************************************************************)
EXTENDS Integers, FiniteSets, Sequences, TLC

VARIABLES ca

vars == <<ca>>

(* ---------------------------- bounds ----------------------------------- *)
MaxCells == 9
MaxCalls == 3
TwinMaxCells == 4
MirrorWidth == 4

Variants == {"fixed", "dynamic"}

(* ------------------------- bit storage --------------------------------- *)
\* DynamicBitset(int size) / a default-constructed std::bitset: all bits 0.
AllDead(size) == [i \in 0..(size - 1) |-> FALSE]

testOffByOne(bits, size, index) ==
    IF index > 0 /\ index < size THEN bits[index] ELSE FALSE

\* DynamicBitset::test: bounds-checked read, false when out of range.
test(bits, size, index) ==
    IF index >= 0 /\ index < size THEN bits[index] ELSE FALSE

setOffByOne(bits, size, index, value) ==
    IF index > 0 /\ index < size THEN [bits EXCEPT ![index] = value] ELSE bits

\* DynamicBitset::set: bounds-checked write, ignored when out of range.
set(bits, size, index, value) ==
    IF index >= 0 /\ index < size THEN [bits EXCEPT ![index] = value] ELSE bits

\* DynamicBitset::reset / std::bitset::reset: every bit to 0.
reset(bits) == [i \in DOMAIN bits |-> FALSE]

\* DynamicBitset::operator== (sizes first, then bit by bit); std::bitset ==.
BitsEqual(a, sizeA, b, sizeB) ==
    IF sizeA # sizeB THEN FALSE
    ELSE \A i \in 0..(sizeA - 1) : a[i] = b[i]

\* Cell read as each variant writes it: grid[index] or grid.test(index).
ReadCell(variant, bits, size, index) ==
    IF variant = "dynamic" THEN test(bits, size, index) ELSE bits[index]

\* Cell write as each variant writes it: nextGrid[index] = v or nextGrid.set.
WriteCell(variant, bits, size, index, value) ==
    IF variant = "dynamic" THEN set(bits, size, index, value)
    ELSE [bits EXCEPT ![index] = value]

\* GridSize = Width * Height; width * height in the dynamic variant.
GridSize(s) == s.width * s.height

(* ------------------------- neighbour count ----------------------------- *)
InBoundsWrap(nx, ny, width, height) ==
    ny * width + nx >= 0 /\ ny * width + nx < width * height

\* if (nx >= 0 && nx < width && ny >= 0 && ny < height)
InBounds(nx, ny, width, height) ==
    nx >= 0 /\ nx < width /\ ny >= 0 /\ ny < height

\* count += grid[...]: bool to int.
BoolToInt(b) == IF b THEN 1 ELSE 0

\* The two nested loops dy, dx = -1..1 flattened: k = 3*(dy+1) + (dx+1).
RECURSIVE NeighborLoop(_, _, _, _)
NeighborLoop(s, x, y, k) ==
    IF k > 8 THEN 0
    ELSE LET dy == (k \div 3) - 1
             dx == (k % 3) - 1
             nx == x + dx
             ny == y + dy
             here == IF dx = 0 /\ dy = 0 THEN 0
                     ELSE IF InBounds(nx, ny, s.width, s.height)
                          THEN BoolToInt(ReadCell(s.variant, s.grid,
                                                  GridSize(s), ny * s.width + nx))
                          ELSE 0
         IN  here + NeighborLoop(s, x, y, k + 1)

countLiveNeighbors(s, x, y) == NeighborLoop(s, x, y, 0)

(* ------------------------------ update --------------------------------- *)
RuleNoBirth(alive, liveNeighbors) ==
    alive /\ (liveNeighbors = 2 \/ liveNeighbors = 3)

\* (alive && (n == 2 || n == 3)) || (!alive && n == 3)
Rule(alive, liveNeighbors) ==
    (alive /\ (liveNeighbors = 2 \/ liveNeighbors = 3))
    \/ (~alive /\ liveNeighbors = 3)

\* The loops over y and x flattened in iteration order: k = y*width + x.
RECURSIVE CellLoop(_, _, _)
CellLoop(s, next, k) ==
    IF k >= GridSize(s) THEN next
    ELSE LET y == k \div s.width
             x == k % s.width
             index == y * s.width + x
             liveNeighbors == countLiveNeighbors(s, x, y)
             alive == ReadCell(s.variant, s.grid, GridSize(s), index)
         IN  CellLoop(s, WriteCell(s.variant, next, GridSize(s), index,
                                   Rule(alive, liveNeighbors)), k + 1)

\* nextGrid.reset() followed by the cell loops.
ComputeNext(s) == CellLoop(s, reset(s.nextGrid), 0)

StableStale(next, s) ==
    BitsEqual(s.nextGrid, GridSize(s), s.prevGrid, GridSize(s))
    \/ BitsEqual(s.nextGrid, GridSize(s), s.grid, GridSize(s))

StableOnlyPrev(next, s) ==
    BitsEqual(next, GridSize(s), s.prevGrid, GridSize(s))

StableOnlyCurrent(next, s) ==
    BitsEqual(next, GridSize(s), s.grid, GridSize(s))

\* if ((nextGrid == prevGrid) || (nextGrid == grid))
Stable(next, s) ==
    BitsEqual(next, GridSize(s), s.prevGrid, GridSize(s))
    \/ BitsEqual(next, GridSize(s), s.grid, GridSize(s))

ShiftSwapped(next, s) ==
    [s EXCEPT !.nextGrid = next, !.grid = next, !.prevGrid = next,
              !.isAlive = TRUE]

\* prevGrid = grid; grid = nextGrid; return true;
Shift(next, s) ==
    [s EXCEPT !.nextGrid = next, !.prevGrid = s.grid, !.grid = next,
              !.isAlive = TRUE]

\* bool update(): the simulator after the call; isAlive is the value returned.
\* nextGrid is computed once (bound through a singleton set), then compared.
update(s) ==
    LET Compare(next) ==
            IF Stable(next, s)
            THEN [s EXCEPT !.nextGrid = next, !.isAlive = FALSE]
            ELSE Shift(next, s)
    IN  CHOOSE t \in {Compare(next) : next \in {ComputeNext(s)}} : TRUE

\* The read display() makes of cell (x,y): grid.test(y * width + x).
cellAt(s, x, y) == test(s.grid, GridSize(s), y * s.width + x)

(* --------------------------- the program ------------------------------- *)
Min(a, b) == IF a < b THEN a ELSE b

\* A program instance before main has run: only the arguments are known.
Instance(variant, width, height) ==
    [variant |-> variant, width |-> width, height |-> height, pc |-> "main",
     grid |-> <<>>, nextGrid |-> <<>>, prevGrid |-> <<>>, isAlive |-> TRUE,
     calls |-> 0, grid0 |-> <<>>,
     gridBefore |-> <<>>, prevBefore |-> <<>>, nextBefore |-> <<>>]

\* Arguments main can be started with.  The fixed variant takes its
\* dimensions from positive template parameters; the dynamic one from -w/-h.
Arguments(variant) ==
    IF variant = "fixed"
    THEN {a \in (1..MaxCells) \X (1..MaxCells) : a[1] * a[2] <= MaxCells}
    ELSE {a \in ((0 - 1)..MaxCells) \X ((0 - 1)..MaxCells) :
            a[1] <= 0 \/ a[2] <= 0 \/ a[1] * a[2] <= MaxCells}

Init ==
    \E variant \in Variants : \E a \in Arguments(variant) :
        ca = [p \in {1} |-> Instance(variant, a[1], a[2])]

\* Two instances, each of either variant, started with the same dimensions.
InitTwin ==
    \E variant \in [{1, 2} -> Variants] :
    \E width \in 1..TwinMaxCells : \E height \in 1..TwinMaxCells :
        /\ width * height <= TwinMaxCells
        /\ ca = [p \in {1, 2} |-> Instance(variant[p], width, height)]

InvalidDimensionsNegativeOnly(width, height) == width < 0 \/ height < 0

\* if (width <= 0 || height <= 0)
InvalidDimensions(width, height) == width <= 0 \/ height <= 0

\* main up to the call of run(): dimension check (dynamic variant only),
\* then the constructor, whose initializeRandom draws every cell of grid.
Main(p) ==
    LET s == ca[p] IN
    /\ s.pc = "main"
    /\ IF s.variant = "dynamic" /\ InvalidDimensions(s.width, s.height)
       THEN ca' = [ca EXCEPT ![p].pc = "exit1"]
       ELSE \E g \in [0..(GridSize(s) - 1) -> BOOLEAN] :
              ca' = [ca EXCEPT ![p] =
                        [s EXCEPT !.pc = "run",
                                  !.grid = g,
                                  !.nextGrid = AllDead(GridSize(s)),
                                  !.prevGrid = AllDead(GridSize(s)),
                                  !.grid0 = g]]

\* One iteration of the while (true) loop of run(): update(), display(),
\* and either the break (run returns, main returns 0) or iteration++.
RunIterate(p) ==
    LET s == ca[p]
    IN  /\ s.pc = "run"
        /\ \E t \in {update(s)} :
           ca' = [ca EXCEPT ![p] =
                     [t EXCEPT !.pc = IF t.isAlive THEN "run" ELSE "exit0",
                               !.calls = Min(s.calls + 1, MaxCalls),
                               !.gridBefore = s.grid,
                               !.prevBefore = s.prevGrid,
                               !.nextBefore = s.nextGrid]]

Next == \E p \in DOMAIN ca : Main(p) \/ RunIterate(p)

Spec == Init /\ [][Next]_vars

SpecTwin == InitTwin /\ [][Next]_vars

\* Seeds initializeRandom can draw on a grid of three or four rows: the
\* grids symmetric under top-bottom reflection (outer rows a, inner rows b).
MirrorSeeds(width, height) ==
    {[i \in 0..(width * height - 1) |->
        IF (i \div width) \in {0, height - 1} THEN a[i % width]
                                              ELSE b[i % width]] :
        a \in [0..(width - 1) -> BOOLEAN], b \in [0..(width - 1) -> BOOLEAN]}

\* The instance as the constructor leaves it when initializeRandom drew g.
Seeded(variant, width, height, g) ==
    [Instance(variant, width, height) EXCEPT
        !.pc = "run", !.grid = g, !.grid0 = g,
        !.nextGrid = AllDead(width * height),
        !.prevGrid = AllDead(width * height)]

\* One instance: either not yet started, with any arguments of at most
\* TwinMaxCells cells, or just constructed on a larger grid of three or four
\* rows with a mirrored seed.
InitLive ==
    \/ \E variant \in Variants : \E a \in Arguments(variant) :
          /\ a[1] <= 0 \/ a[2] <= 0 \/ a[1] * a[2] <= TwinMaxCells
          /\ ca = [p \in {1} |-> Instance(variant, a[1], a[2])]
    \/ \E variant \in Variants : \E width \in 1..MirrorWidth :
       \E height \in {3, 4} : \E g \in MirrorSeeds(width, height) :
          ca = [p \in {1} |-> Seeded(variant, width, height, g)]

\* The program is sequential and nothing in main or run() blocks: a step
\* that is possible is eventually taken.
SpecLive == InitLive /\ [][Next]_vars /\ WF_vars(Next)

(* ===================== reference definitions =========================== *)
\* Stated independently of the loops above: coordinates, Moore neighbours
\* inside the grid, and the B3/S23 successor of a grid.
Abs(n) == IF n < 0 THEN 0 - n ELSE n

Coords(width, height) == (0..(width - 1)) \X (0..(height - 1))

MooreNeighbours(x, y, width, height) ==
    {c \in Coords(width, height) :
        /\ c # <<x, y>>
        /\ Abs(c[1] - x) <= 1
        /\ Abs(c[2] - y) <= 1}

LiveNeighbourCount(g, x, y, width, height) ==
    Cardinality({c \in MooreNeighbours(x, y, width, height) :
                    g[c[2] * width + c[1]]})

Successor(g, width, height) ==
    [i \in 0..(width * height - 1) |->
        LET n == LiveNeighbourCount(g, i % width, i \div width, width, height)
        IN  IF g[i] THEN n \in {2, 3} ELSE n = 3]

LiveSet(g, width, height) ==
    {c \in Coords(width, height) : g[c[2] * width + c[1]]}

\* Three live cells in a row or column whose centre is an interior cell.
IsHorizontalBlinker(g, width, height) ==
    \E cx \in 1..(width - 2) : \E cy \in 1..(height - 2) :
        LiveSet(g, width, height) = {<<cx - 1, cy>>, <<cx, cy>>, <<cx + 1, cy>>}

IsVerticalBlinker(g, width, height) ==
    \E cx \in 1..(width - 2) : \E cy \in 1..(height - 2) :
        LiveSet(g, width, height) = {<<cx, cy - 1>>, <<cx, cy>>, <<cx, cy + 1>>}

IsBlinker(g, width, height) ==
    IsHorizontalBlinker(g, width, height) \/ IsVerticalBlinker(g, width, height)

\* A 2x2 block of live cells, everything else dead.
IsBlock(g, width, height) ==
    \E bx \in 0..(width - 2) : \E by \in 0..(height - 2) :
        LiveSet(g, width, height) =
            {<<bx, by>>, <<bx + 1, by>>, <<bx, by + 1>>, <<bx + 1, by + 1>>}

IsAllDead(g, width, height) == LiveSet(g, width, height) = {}

\* The instance has returned from at least one call of update().
Updated(s) == s.calls >= 1

\* The simulator as it was on entry to its latest update().
Before(s) ==
    [s EXCEPT !.grid = s.gridBefore, !.prevGrid = s.prevBefore,
              !.nextGrid = s.nextBefore]

(* ============================ claims =================================== *)

\* C1: one call of update() leaves in nextGrid exactly the B3/S23 successor
\* of the grid it was called on (alive with 2 or 3 live neighbours survives,
\* dead with exactly 3 is born, everything else is dead), in both variants.
C1_UpdateAppliesB3S23 ==
    \A p \in DOMAIN ca :
        Updated(ca[p]) =>
            ca[p].nextGrid = Successor(ca[p].gridBefore, ca[p].width, ca[p].height)

\* A dynamic-variant update in which a birth, a survival and a death all occur.
C1_Witness ==
    \E p \in DOMAIN ca :
        LET s == ca[p] IN
        /\ Updated(s)
        /\ s.variant = "dynamic"
        /\ \E i \in DOMAIN s.gridBefore : ~s.gridBefore[i] /\ s.nextGrid[i]
        /\ \E i \in DOMAIN s.gridBefore : s.gridBefore[i] /\ s.nextGrid[i]
        /\ \E i \in DOMAIN s.gridBefore : s.gridBefore[i] /\ ~s.nextGrid[i]

\* C2: on the grid update() was called on, countLiveNeighbors(x,y) is the
\* number of live cells among the Moore neighbours of (x,y) that lie inside
\* the grid; the cell itself and cells reached only by linear-index
\* wraparound do not count.
C2_CountIsBoundedMoore ==
    \A p \in DOMAIN ca :
        Updated(ca[p]) =>
            \A c \in Coords(ca[p].width, ca[p].height) :
                countLiveNeighbors(Before(ca[p]), c[1], c[2]) =
                    LiveNeighbourCount(ca[p].gridBefore, c[1], c[2],
                                       ca[p].width, ca[p].height)

\* Width 3, the last cell of row 0 is alive (linear index 2 = index of (0,1)
\* minus one), yet cell (0,1) in the first column counts no neighbour, and
\* the live cell (2,0) does not count itself.
C2_Witness ==
    \E p \in DOMAIN ca :
        LET s == ca[p] IN
        /\ Updated(s)
        /\ s.width = 3 /\ s.height >= 2
        /\ s.gridBefore[2]
        /\ countLiveNeighbors(Before(s), 0, 1) = 0
        /\ countLiveNeighbors(Before(s), 2, 0) = 0

\* C3: when the generation computed by update() equals prevGrid or grid,
\* update() returns false and grid and prevGrid are as before the call.
C3_StableLeavesStateUnchanged ==
    \A p \in DOMAIN ca :
        LET s == ca[p] IN
        (Updated(s) /\ (s.nextGrid = s.prevBefore \/ s.nextGrid = s.gridBefore))
            => (~s.isAlive /\ s.grid = s.gridBefore /\ s.prevGrid = s.prevBefore)

\* A second or later update whose result repeats prevGrid but not grid.
C3_Witness ==
    \E p \in DOMAIN ca :
        LET s == ca[p] IN
        /\ s.calls >= 2
        /\ s.nextGrid = s.prevBefore
        /\ s.nextGrid # s.gridBefore
        /\ ~s.isAlive

\* C4: when the generation computed by update() differs from both prevGrid
\* and grid, update() returns true, prevGrid becomes the old grid and grid
\* becomes the computed generation.
C4_ProgressShiftsState ==
    \A p \in DOMAIN ca :
        LET s == ca[p] IN
        (Updated(s) /\ s.nextGrid # s.prevBefore /\ s.nextGrid # s.gridBefore)
            => (s.isAlive /\ s.prevGrid = s.gridBefore /\ s.grid = s.nextGrid)

\* A second or later update that shifts three pairwise different generations.
C4_Witness ==
    \E p \in DOMAIN ca :
        LET s == ca[p] IN
        /\ s.calls >= 2
        /\ s.isAlive
        /\ s.prevBefore # s.gridBefore
        /\ s.grid # s.prevBefore
        /\ s.grid # s.gridBefore
        /\ s.prevGrid = s.gridBefore

\* C5 as stated: after every call of update(), whatever it returns, prevGrid
\* is the grid from before the call and grid is the computed generation.
C5_Original ==
    \A p \in DOMAIN ca :
        Updated(ca[p]) =>
            (ca[p].prevGrid = ca[p].gridBefore /\ ca[p].grid = ca[p].nextGrid)

\* C5 amended: after a call of update() that returns true, prevGrid is the
\* grid from before the call and grid is the computed generation; after a
\* call that returns false, grid and prevGrid are what they were before.
C5_ShiftOnlyWhenAlive ==
    \A p \in DOMAIN ca :
        LET s == ca[p] IN
        Updated(s) =>
            IF s.isAlive
            THEN s.prevGrid = s.gridBefore /\ s.grid = s.nextGrid
            ELSE s.grid = s.gridBefore /\ s.prevGrid = s.prevBefore

\* An update that returned false with grid not the computed generation and
\* prevGrid not the grid from before the call.
C5_Witness ==
    \E p \in DOMAIN ca :
        LET s == ca[p] IN
        /\ Updated(s)
        /\ ~s.isAlive
        /\ s.grid # s.nextGrid
        /\ s.prevGrid # s.gridBefore

\* C6 as stated: a simulator seeded with a blinker has, after two calls of
\* update(), the original blinker in grid.
C6_Original ==
    \A p \in DOMAIN ca :
        LET s == ca[p] IN
        (s.calls = 2 /\ IsBlinker(s.grid0, s.width, s.height)) => s.grid = s.grid0

\* C6 amended: seeded with a blinker, the generation computed by the second
\* update() (nextGrid) is the original blinker again, and it is what
\* prevGrid holds; grid itself stays at the rotated blinker computed by the
\* first update().
C6_BlinkerPeriodTwoInNextGrid ==
    \A p \in DOMAIN ca :
        LET s == ca[p] IN
        (s.calls = 2 /\ IsBlinker(s.grid0, s.width, s.height)) =>
            /\ s.nextGrid = s.grid0
            /\ s.prevGrid = s.grid0
            /\ s.grid # s.grid0
            /\ IsBlinker(s.grid, s.width, s.height)
            /\ IsHorizontalBlinker(s.grid, s.width, s.height)
                   = IsVerticalBlinker(s.grid0, s.width, s.height)

\* Two updates from a horizontal blinker.
C6_Witness ==
    \E p \in DOMAIN ca :
        LET s == ca[p] IN
        /\ s.calls = 2
        /\ IsHorizontalBlinker(s.grid0, s.width, s.height)
        /\ IsVerticalBlinker(s.grid, s.width, s.height)

\* C7: seeded with a blinker (prevGrid all dead), the first update() returns
\* true and the loop goes on; the second returns false, the generation it
\* computed being equal to prevGrid.
C7_BlinkerDetectedOnSecondUpdate ==
    \A p \in DOMAIN ca :
        LET s == ca[p] IN
        (Updated(s) /\ IsBlinker(s.grid0, s.width, s.height)) =>
            /\ s.calls = 1 => (s.isAlive /\ s.pc = "run"
                               /\ IsAllDead(s.prevBefore, s.width, s.height))
            /\ s.calls = 2 => (~s.isAlive /\ s.pc = "exit0"
                               /\ s.nextGrid = s.prevBefore
                               /\ s.nextGrid # s.gridBefore)
            /\ s.calls <= 2

\* The second update from a vertical blinker has returned false.
C7_Witness ==
    \E p \in DOMAIN ca :
        LET s == ca[p] IN
        /\ s.calls = 2
        /\ IsVerticalBlinker(s.grid0, s.width, s.height)
        /\ ~s.isAlive

\* C8 as stated: two simulators (of either variant) of the same dimensions
\* that enter update() with the same grid get the same return value and end
\* with the same grid.
C8_Original ==
    \A p \in DOMAIN ca : \A q \in DOMAIN ca :
        LET s == ca[p]
            t == ca[q]
        IN  (/\ Updated(s) /\ Updated(t)
             /\ s.width = t.width /\ s.height = t.height
             /\ s.gridBefore = t.gridBefore)
            => (s.isAlive = t.isAlive /\ s.grid = t.grid)

\* C8 amended: two simulators (of either variant) of the same dimensions
\* that enter update() with the same grid compute the same generation; if
\* they also enter with the same prevGrid they get the same return value and
\* end with the same grid and prevGrid.
C8_DeterministicGivenGridAndPrev ==
    \A p \in DOMAIN ca : \A q \in DOMAIN ca :
        LET s == ca[p]
            t == ca[q]
        IN  (/\ Updated(s) /\ Updated(t)
             /\ s.width = t.width /\ s.height = t.height
             /\ s.gridBefore = t.gridBefore)
            => /\ s.nextGrid = t.nextGrid
               /\ s.prevBefore = t.prevBefore =>
                    (/\ s.isAlive = t.isAlive
                     /\ s.grid = t.grid
                     /\ s.prevGrid = t.prevGrid)

\* Two instances of different variants whose second update() started from
\* the same non-trivial grid and prevGrid and returned true.
C8_Witness ==
    /\ DOMAIN ca = {1, 2}
    /\ ca[1].variant # ca[2].variant
    /\ ca[1].calls = 2 /\ ca[2].calls = 2
    /\ ca[1].isAlive /\ ca[2].isAlive
    /\ ca[1].gridBefore = ca[2].gridBefore
    /\ ca[1].prevBefore = ca[2].prevBefore
    /\ ~IsAllDead(ca[1].gridBefore, ca[1].width, ca[1].height)
    /\ ~IsAllDead(ca[1].prevBefore, ca[1].width, ca[1].height)

\* C9: update() called on a grid that is a single 2x2 block returns false
\* and leaves the block in grid, whatever prevGrid holds.
C9_BlockIsStillLife ==
    \A p \in DOMAIN ca :
        LET s == ca[p] IN
        (Updated(s) /\ IsBlock(s.gridBefore, s.width, s.height))
            => (~s.isAlive /\ s.grid = s.gridBefore)

\* A block reached from another generation (prevGrid live, not the block).
C9_Witness ==
    \E p \in DOMAIN ca :
        LET s == ca[p] IN
        /\ s.calls >= 2
        /\ IsBlock(s.gridBefore, s.width, s.height)
        /\ ~IsAllDead(s.prevBefore, s.width, s.height)
        /\ s.prevBefore # s.gridBefore
        /\ ~s.isAlive

\* C10: update() called on an all-dead grid returns false and grid is still
\* all dead, whatever prevGrid holds.
C10_AllDeadIsFixedPoint ==
    \A p \in DOMAIN ca :
        LET s == ca[p] IN
        (Updated(s) /\ IsAllDead(s.gridBefore, s.width, s.height))
            => (~s.isAlive /\ IsAllDead(s.grid, s.width, s.height))

\* An all-dead grid reached from a live generation.
C10_Witness ==
    \E p \in DOMAIN ca :
        LET s == ca[p] IN
        /\ s.calls >= 2
        /\ IsAllDead(s.gridBefore, s.width, s.height)
        /\ ~IsAllDead(s.prevBefore, s.width, s.height)
        /\ ~s.isAlive

\* The instance has been constructed (main reached run()).
Constructed(s) == s.pc \in {"run", "exit0"}

C12_InvalidDimensionExits1 ==
    \A p \in DOMAIN ca :
        LET s == ca[p] IN
        s.pc # "main" =>
            IF s.variant = "dynamic" /\ (s.width <= 0 \/ s.height <= 0)
            THEN /\ s.pc = "exit1"
                 /\ s.calls = 0
                 /\ s.grid = <<>> /\ s.nextGrid = <<>> /\ s.prevGrid = <<>>
            ELSE s.pc # "exit1"

\* main has rejected width 0, height 5.
C12_Witness ==
    \E p \in DOMAIN ca :
        /\ ca[p].pc = "exit1"
        /\ ca[p].width = 0
        /\ ca[p].height = 5

\* C13 as stated: whenever update() returns false, grid is in a cycle of
\* period 1 or 2, i.e. applying the rule twice to grid gives grid again.
C13_FalseMeansCycle ==
    \A p \in DOMAIN ca :
        LET s == ca[p] IN
        (Updated(s) /\ ~s.isAlive) =>
            Successor(Successor(s.grid, s.width, s.height), s.width, s.height)
                = s.grid

\* C14: a simulator whose update() has returned false is a fixed point of
\* update(): a further call returns false again and leaves grid, prevGrid
\* (and nextGrid) as they are, hence so does every later call.
C14_TerminatedIsAbsorbing ==
    \A p \in DOMAIN ca :
        LET s == ca[p]
            t == update(s)
        IN  (Updated(s) /\ ~s.isAlive) =>
                /\ ~t.isAlive
                /\ t.grid = s.grid
                /\ t.prevGrid = s.prevGrid
                /\ t.nextGrid = s.nextGrid

\* A loop that ended on its third or later update with a live grid different
\* from both prevGrid and the initial all-dead prevGrid.
C14_Witness ==
    \E p \in DOMAIN ca :
        LET s == ca[p] IN
        /\ s.calls >= 3
        /\ ~s.isAlive
        /\ s.pc = "exit0"
        /\ ~IsAllDead(s.grid, s.width, s.height)
        /\ s.grid # s.prevGrid

\* Some update() of the instance has returned true.
HasAdvanced(s) == Updated(s) /\ (s.isAlive \/ s.calls >= 2)

\* C16: once an update() has returned true, grid is the B3/S23 successor of
\* prevGrid, after that call and after every later call, true or false.
C16_GridIsSuccessorOfPrev ==
    \A p \in DOMAIN ca :
        LET s == ca[p] IN
        HasAdvanced(s) => s.grid = Successor(s.prevGrid, s.width, s.height)

\* After a false return that followed at least one true return, with grid
\* and prevGrid different and prevGrid live.
C16_Witness ==
    \E p \in DOMAIN ca :
        LET s == ca[p] IN
        /\ s.calls >= 2
        /\ ~s.isAlive
        /\ s.grid # s.prevGrid
        /\ ~IsAllDead(s.prevGrid, s.width, s.height)

\* Contents nextGrid could hold on entry: all cells alive, and the complement
\* of the generation about to be computed (every cell wrong).
StaleContents(s) ==
    {[i \in DOMAIN s.gridBefore |-> TRUE],
     [i \in DOMAIN s.gridBefore |-> ~s.nextGrid[i]]}

\* C17: the cell loops of update() write every cell of nextGrid from grid
\* (whatever nextGrid held, even without the reset), and the value returned
\* and the resulting grid, prevGrid and nextGrid do not depend on what
\* nextGrid held on entry.
C17_NextGridIsScratch ==
    \A p \in DOMAIN ca :
        LET s == ca[p] IN
        Updated(s) =>
            \A n \in StaleContents(s) :
                LET t == update([Before(s) EXCEPT !.nextGrid = n])
                IN  /\ CellLoop(Before(s), n, 0) = s.nextGrid
                    /\ t.isAlive = s.isAlive
                    /\ t.grid = s.grid
                    /\ t.prevGrid = s.prevGrid
                    /\ t.nextGrid = s.nextGrid

\* A dynamic-variant update entered with live leftovers in nextGrid that
\* differ from the generation it computed.
C17_Witness ==
    \E p \in DOMAIN ca :
        LET s == ca[p] IN
        /\ s.calls >= 2
        /\ s.variant = "dynamic"
        /\ ~IsAllDead(s.nextBefore, s.width, s.height)
        /\ s.nextBefore # s.nextGrid

\* The generations g, Successor(g), ... reach a cycle of period 1 or 2.
RECURSIVE EntersShortCycle(_, _, _, _)
EntersShortCycle(g, width, height, seen) ==
    LET n == Successor(g, width, height) IN
    IF n = g THEN TRUE
    ELSE LET m == Successor(n, width, height) IN
         IF m = g THEN TRUE
         ELSE IF g \in seen THEN FALSE
         ELSE EntersShortCycle(n, width, height, seen \cup {g})

SeedEntersShortCycle(s) == EntersShortCycle(s.grid0, s.width, s.height, {})

\* C15: (1) an update() whose computed generation repeats grid or prevGrid
\* never returns true, so the loop stops no later than the first repetition;
\* (2) update() returns false only when the generations from the seed reach
\* a cycle of period 1 or 2, so never on a run into a cycle of period 3 or
\* more; (3) when the seed's generations reach a cycle of period 1 or 2,
\* run() eventually gets false from update() and exits.
C15_RunLoopTerminatesOnShortCycles ==
    /\ [](\A p \in DOMAIN ca :
            (Updated(ca[p]) /\ ca[p].isAlive) =>
                (ca[p].nextGrid # ca[p].gridBefore
                 /\ ca[p].nextGrid # ca[p].prevBefore))
    /\ [](\A p \in DOMAIN ca :
            (Updated(ca[p]) /\ ~ca[p].isAlive) => SeedEntersShortCycle(ca[p]))
    /\ (Constructed(ca[1]) /\ SeedEntersShortCycle(ca[1]))
           ~> (ca[1].pc = "exit0")

\* The loop has exited on its third or later update, which recomputed
\* prevGrid (period 2) after a transient.
C15_Witness ==
    \E p \in DOMAIN ca :
        LET s == ca[p] IN
        /\ s.pc = "exit0"
        /\ s.calls >= 3
        /\ s.nextGrid = s.prevBefore
        /\ s.nextGrid # s.gridBefore
        /\ s.grid0 # s.gridBefore
        /\ s.grid0 # s.prevBefore

\* A run that is inside a cycle of period 3 or more and still going.
C15_LongCycleReached ==
    \E p \in DOMAIN ca :
        LET s == ca[p] IN
        /\ s.calls >= 3
        /\ s.isAlive
        /\ s.pc = "run"
        /\ ~SeedEntersShortCycle(s)

====
